---- MODULE Spec2Model ----
(***************************************************************************)
(* A model of the Ambient runtime launcher (AmbientRun/AmbientCli):        *)
(*   - src/src/versions.rs    remote catalog listing and installation      *)
(*   - src/src/environment.rs OS tokens, Cargo.toml rewriting              *)
(*   - src/src/main.rs        the `ambl` entry point and its config file   *)
(* Strings are TLA+ strings; a character is a string of length one.        *)
(***************************************************************************)
EXTENDS Integers, Sequences, FiniteSets, TLC

VARIABLES
    bucket,      \* remote store: the items of the listing, in the order the store returns them
    call,        \* the catalog operation that ran last, with its arguments and result
    settings,    \* resolver: the configured default version string, or NoVersion
    installed,   \* resolver: installed version strings, in directory discovery order
    rpc,         \* resolver: position inside resolve
    rreq,        \* resolver: the requirement being resolved
    consulted,   \* resolver: the sources consulted so far, in order
    rres,        \* resolver: result of resolve
    rv,          \* installer: the RuntimeVersion install() runs on
    ipc,         \* installer: position inside RuntimeVersion::install
    fsDirs,      \* installer: version directories that exist under runtimes_dir()
    fsFiles,     \* installer: files that exist, as <<version string, file name>>
    netCalls,    \* installer: number of HTTP downloads started
    data,        \* installer: bytes fetched by download()
    ires,        \* installer: result of the last install call
    config,      \* main.rs: ~/.ambient/config.toml, NoFile or [default |-> version string]
    manifest,    \* main.rs: ./ambient.toml of the current directory
    homeFiles,   \* main.rs: runtime files present under ~/.ambient
    hostOs,      \* main.rs: std::env::consts::OS of the machine
    mpc,         \* main.rs: position inside main
    margs,       \* main.rs: command-line arguments of the current run
    mversion,    \* main.rs: the `version` local of main
    mlog,        \* main.rs: history of the current run (downloads, config writes, outcome)
    cargoToml,   \* environment.rs: the project's Cargo.toml
    cargoCall    \* environment.rs: the last set_ambient_api call, its input and its result

catVars  == <<bucket, call>>
resVars  == <<settings, installed, rpc, rreq, consulted, rres>>
instVars == <<rv, ipc, fsDirs, fsFiles, netCalls, data, ires>>
mainVars == <<config, manifest, homeFiles, hostOs, mpc, margs, mversion, mlog>>
cargoVars == <<cargoToml, cargoCall>>
vars     == <<bucket, call, settings, installed, rpc, rreq, consulted, rres,
              rv, ipc, fsDirs, fsFiles, netCalls, data, ires,
              config, manifest, homeFiles, hostOs, mpc, margs, mversion, mlog,
              cargoToml, cargoCall>>

-----------------------------------------------------------------------------
(* Strings *)

\* The characters that occur in the model, in ascending byte order.
AsciiOrder == "+-./0123456789:abcdefghijklmnopqrstuvwxyz"

Char(s, i) == SubSeq(s, i, i)

Ord(c) == CHOOSE i \in 1..Len(AsciiOrder) : Char(AsciiOrder, i) = c

IsDigit(c) == c \in {"0", "1", "2", "3", "4", "5", "6", "7", "8", "9"}

\* str::cmp: byte-wise lexicographic order, a proper prefix is smaller.
RECURSIVE StrLessFrom(_, _, _)
StrLessFrom(a, b, i) ==
    IF i > Len(b) THEN FALSE
    ELSE IF i > Len(a) THEN TRUE
    ELSE IF Char(a, i) # Char(b, i) THEN Ord(Char(a, i)) < Ord(Char(b, i))
    ELSE StrLessFrom(a, b, i + 1)

StrLess(a, b) == StrLessFrom(a, b, 1)

StartsWith(s, p) == Len(p) <= Len(s) /\ SubSeq(s, 1, Len(p)) = p

Contains(s, p) == \E i \in 1..(Len(s) - Len(p) + 1) : SubSeq(s, i, i + Len(p) - 1) = p

\* First index >= from at which character c occurs in s, 0 when there is none.
RECURSIVE IndexOf(_, _, _)
IndexOf(s, c, from) ==
    IF from > Len(s) THEN 0
    ELSE IF Char(s, from) = c THEN from
    ELSE IndexOf(s, c, from + 1)

\* str::split on a one-character separator: the sequence of pieces.
RECURSIVE Split(_, _)
Split(s, sep) ==
    LET i == IndexOf(s, sep, 1) IN
    IF i = 0 THEN <<s>>
    ELSE <<SubSeq(s, 1, i - 1)>> \o Split(SubSeq(s, i + 1, Len(s)), sep)

\* Iterator::nth (0-based) on the pieces of a split.
Nth(pieces, n) ==
    IF n + 1 <= Len(pieces) THEN [some |-> TRUE, val |-> pieces[n + 1]]
    ELSE [some |-> FALSE]

DigitVal(c) == Ord(c) - Ord("0")

RECURSIVE ParseNat(_)
ParseNat(s) ==
    IF Len(s) = 0 THEN 0
    ELSE 10 * ParseNat(SubSeq(s, 1, Len(s) - 1)) + DigitVal(Char(s, Len(s)))

RECURSIVE NatToStr(_)
NatToStr(n) ==
    IF n < 10 THEN Char("0123456789", n + 1)
    ELSE NatToStr(n \div 10) \o Char("0123456789", (n % 10) + 1)

-----------------------------------------------------------------------------
(* semver::Version *)

AllDigits(s) == \A i \in 1..Len(s) : IsDigit(Char(s, i))

\* A numeric component: digits, no leading zero.
IsNumeric(s) == Len(s) > 0 /\ AllDigits(s) /\ (Len(s) > 1 => Char(s, 1) # "0")

IsIdentChar(c) == c = "-" \/ IsDigit(c) \/ Ord(c) >= Ord("a")

\* A pre-release string: dot-separated non-empty identifiers over [0-9a-z-],
\* numeric identifiers without leading zero.
IsPrerelease(s) ==
    /\ Len(s) > 0
    /\ \A k \in 1..Len(Split(s, ".")) :
          LET id == Split(s, ".")[k] IN
          /\ Len(id) > 0
          /\ \A i \in 1..Len(id) : IsIdentChar(Char(id, i))
          /\ (AllDigits(id) => IsNumeric(id))

\* semver::Version::parse (build metadata, "+...", is outside the alphabet of the
\* versions the model lists, so a "+" makes the parse fail here).
ParseVersion(s) ==
    LET d1   == IndexOf(s, ".", 1)
        d2   == IF d1 = 0 THEN 0 ELSE IndexOf(s, ".", d1 + 1)
        h    == IF d2 = 0 THEN 0 ELSE IndexOf(s, "-", d2 + 1)
        pEnd == IF h = 0 THEN Len(s) ELSE h - 1
        maj  == SubSeq(s, 1, d1 - 1)
        min  == SubSeq(s, d1 + 1, d2 - 1)
        pat  == SubSeq(s, d2 + 1, pEnd)
        pre  == IF h = 0 THEN "" ELSE SubSeq(s, h + 1, Len(s))
    IN  IF /\ d1 > 0 /\ d2 > 0
           /\ IsNumeric(maj) /\ IsNumeric(min) /\ IsNumeric(pat)
           /\ (h > 0 => IsPrerelease(pre))
        THEN [ok |-> TRUE,
              v  |-> [major |-> ParseNat(maj), minor |-> ParseNat(min),
                      patch |-> ParseNat(pat), pre |-> pre]]
        ELSE [ok |-> FALSE]

\* Display for semver::Version (version.to_string()).
VersionToString(v) ==
    NatToStr(v.major) \o "." \o NatToStr(v.minor) \o "." \o NatToStr(v.patch)
        \o (IF v.pre = "" THEN "" ELSE "-" \o v.pre)

\* Ord for semver::Prerelease: the empty pre-release is the greatest; otherwise
\* identifiers compare left to right, numeric ones numerically and below
\* alphanumeric ones, alphanumeric ones in byte order; a shorter list is smaller.
IdentLess(a, b) ==
    IF AllDigits(a) /\ AllDigits(b) THEN ParseNat(a) < ParseNat(b)
    ELSE IF AllDigits(a) THEN TRUE
    ELSE IF AllDigits(b) THEN FALSE
    ELSE StrLess(a, b)

RECURSIVE IdentsLess(_, _, _)
IdentsLess(as, bs, i) ==
    IF i > Len(bs) THEN FALSE
    ELSE IF i > Len(as) THEN TRUE
    ELSE IF as[i] # bs[i] THEN IdentLess(as[i], bs[i])
    ELSE IdentsLess(as, bs, i + 1)

PreLess(p, q) ==
    IF p = "" THEN FALSE
    ELSE IF q = "" THEN TRUE
    ELSE IdentsLess(Split(p, "."), Split(q, "."), 1)

\* Ord for semver::Version (semantic precedence).
VersionLess(a, b) ==
    IF a.major # b.major THEN a.major < b.major
    ELSE IF a.minor # b.minor THEN a.minor < b.minor
    ELSE IF a.patch # b.patch THEN a.patch < b.patch
    ELSE PreLess(a.pre, b.pre)

-----------------------------------------------------------------------------
(* Operating systems and release trains *)

\* Os::from_str: the three recognized tokens, anything else is an error.
OsFromStr(s) ==
    IF s = "macos-latest" THEN [ok |-> TRUE, os |-> "Macos"]
    ELSE IF s = "windows-latest" THEN [ok |-> TRUE, os |-> "Windows"]
    ELSE IF s = "ubuntu-22.04" THEN [ok |-> TRUE, os |-> "Linux"]
    ELSE [ok |-> FALSE, err |-> "Invalid OS"]

\* Os::ambient_bin_name
AmbientBinName(os) == IF os = "Windows" THEN "ambient.exe" ELSE "ambient"

\* ReleaseTrain::from_version, as the specification's data model defines the
\* trains: Stable = no pre-release, Nightly = pre-release contains "nightly",
\* Internal = any other pre-release.
ReleaseTrainFromVersion(v) ==
    IF v.pre = "" THEN "Stable"
    ELSE IF Contains(v.pre, "nightly") THEN "Nightly"
    ELSE "Internal"

IsNightly(r) == ReleaseTrainFromVersion(r.version) = "Nightly"

IsPointRelease(r) == ReleaseTrainFromVersion(r.version) = "Stable"

IsPublic(r) == IsPointRelease(r) \/ IsNightly(r)

-----------------------------------------------------------------------------
(* The remote catalog: get_versions_with_prefix *)

\* version_from_path: the second "/"-separated piece of the name, parsed.
VersionFromPath(path) ==
    LET piece == Nth(Split(path, "/"), 1) IN
    IF piece.some THEN ParseVersion(piece.val) ELSE [ok |-> FALSE]

\* The store's answer to the listing request: the items whose name starts with
\* "ambient-builds/{prefix}", in the store's order.
BucketQuery(bkt, prefix) ==
    SelectSeq(bkt, LAMBDA b : StartsWith(b.name, "ambient-builds/" \o prefix))

\* filter_map(|b| Some((version_from_path(&b.name).ok()?, b)))
RECURSIVE ParsedItems(_)
ParsedItems(items) ==
    IF items = <<>> THEN <<>>
    ELSE LET p == VersionFromPath(items[1].name) IN
         (IF p.ok THEN <<[version |-> p.v, item |-> items[1]]>> ELSE <<>>)
             \o ParsedItems(Tail(items))

\* Length of the leading run of pairs whose version equals that of the first.
RECURSIVE RunLength(_, _)
RunLength(pairs, n) ==
    IF n < Len(pairs) /\ pairs[n + 1].version = pairs[1].version
    THEN RunLength(pairs, n + 1)
    ELSE n

\* itertools group_by: one group per run of consecutive pairs with equal key.
RECURSIVE GroupBy(_)
GroupBy(pairs) ==
    IF pairs = <<>> THEN <<>>
    ELSE LET n == RunLength(pairs, 1) IN
         <<[version |-> pairs[1].version, items |-> SubSeq(pairs, 1, n)]>>
             \o GroupBy(SubSeq(pairs, n + 1, Len(pairs)))

\* The closure taking an unrecognized OS token for the current OS.
BuildOfLenient(pair) ==
    LET tok == Nth(Split(pair.item.name, "/"), 2) IN
    IF ~tok.some THEN [ok |-> FALSE, err |-> "Invalid build"]
    ELSE LET os == OsFromStr(tok.val) IN
         [ok |-> TRUE, build |-> [os |-> IF os.ok THEN os.os ELSE "Linux",
                                  url |-> pair.item.media_link]]

\* The closure that turns one item of a group into a Build.
BuildOf(pair) ==
    LET tok == Nth(Split(pair.item.name, "/"), 2) IN
    IF ~tok.some THEN [ok |-> FALSE, err |-> "Invalid build"]
    ELSE LET os == OsFromStr(tok.val) IN
         IF os.ok THEN [ok |-> TRUE, build |-> [os |-> os.os, url |-> pair.item.media_link]]
         ELSE [ok |-> FALSE, err |-> os.err]

\* The loop over the groups: a RuntimeVersion per group, or the first error.
RECURSIVE CollectVersions(_)
CollectVersions(groups) ==
    IF groups = <<>> THEN [ok |-> TRUE, versions |-> <<>>]
    ELSE LET g    == groups[1]
             bs   == [i \in 1..Len(g.items) |-> BuildOf(g.items[i])]
             bad  == {i \in 1..Len(bs) : ~bs[i].ok}
             rest == CollectVersions(Tail(groups))
         IN  IF bad # {}
             THEN [ok |-> FALSE, err |-> bs[CHOOSE i \in bad : \A j \in bad : i <= j].err]
             ELSE IF ~rest.ok THEN rest
             ELSE [ok |-> TRUE,
                   versions |-> <<[version |-> g.version,
                                   builds  |-> [i \in 1..Len(bs) |-> bs[i].build]]>>
                                    \o rest.versions]

\* Retain without the second retain: nightlies are never dropped.
RetainKeepsNightly(versions, filter) ==
    IF ~filter.include_private
    THEN SelectSeq(versions, LAMBDA r : IsPublic(r))
    ELSE versions

\* versions.retain(...) for the two visibility flags.
Retain(versions, filter) ==
    LET pub == IF ~filter.include_private
               THEN SelectSeq(versions, LAMBDA r : IsPublic(r))
               ELSE versions
    IN  IF ~filter.include_nightly
        THEN SelectSeq(pub, LAMBDA r : ~IsNightly(r))
        ELSE pub

\* The sort key of versions.sort_by_key: the version's string.
SortKey(r) == VersionToString(r.version)

\* slice::sort_by_key: a stable sort, ascending in the key under str::cmp.
RECURSIVE SortByKey(_)
SortByKey(versions) ==
    IF versions = <<>> THEN <<>>
    ELSE LET front  == SortByKey(SubSeq(versions, 1, Len(versions) - 1))
             x      == versions[Len(versions)]
             before == {i \in 1..Len(front) : ~StrLess(SortKey(x), SortKey(front[i]))}
             n      == Cardinality(before)
         IN  SubSeq(front, 1, n) \o <<x>> \o SubSeq(front, n + 1, Len(front))

\* get_versions_with_prefix; `up` is whether the listing request succeeds.
GetVersionsWithPrefix(bkt, up, prefix, filter) ==
    IF ~up THEN [ok |-> FALSE, err |-> "request failed"]
    ELSE LET got == CollectVersions(GroupBy(ParsedItems(BucketQuery(bkt, prefix)))) IN
         IF ~got.ok THEN got
         ELSE [ok |-> TRUE, versions |-> SortByKey(Retain(got.versions, filter))]

\* get_versions
GetVersionsOf(bkt, up, filter) == GetVersionsWithPrefix(bkt, up, "", filter)

\* get_version: the first entry of the listing under the version's prefix.
GetVersionOf(bkt, up, version) ==
    LET got == GetVersionsWithPrefix(bkt, up, version,
                                     [include_private |-> TRUE, include_nightly |-> TRUE])
    IN  IF ~got.ok THEN got
        ELSE IF got.versions = <<>> THEN [ok |-> FALSE, err |-> "Version not found"]
        ELSE [ok |-> TRUE, version |-> got.versions[1]]
\* resolveLatestForTrain, as the specification's component design defines it:
\* the catalog with visibility {includePrivate: train = Internal, includeNightly:
\* train = Nightly or fallback}, the last entry of the requested train, else the
\* last Nightly entry when fallback is permitted, else NoVersionsForTrain.
ResolveLatestForTrain(bkt, up, train, fallback) ==
    LET got == GetVersionsOf(bkt, up, [include_private |-> train = "Internal",
                                       include_nightly |-> train = "Nightly" \/ fallback])
    IN  IF ~got.ok THEN got
        ELSE LET same    == SelectSeq(got.versions,
                                      LAMBDA r : ReleaseTrainFromVersion(r.version) = train)
                 nightly == SelectSeq(got.versions, LAMBDA r : IsNightly(r))
             IN  IF same # <<>> THEN [ok |-> TRUE, version |-> same[Len(same)]]
                 ELSE IF fallback /\ nightly # <<>>
                      THEN [ok |-> TRUE, version |-> nightly[Len(nightly)]]
                 ELSE [ok |-> FALSE, err |-> "NoVersionsForTrain"]

-----------------------------------------------------------------------------
(* The catalog specification: a remote listing and the queries on it *)

\* Largest number of objects in the remote listing.
MaxItems == 3

\* Object names the store may hold: <namespace>/<version>/<os-token>/<file>.
Keys ==
    { "ambient-builds/0.1.0/ubuntu-22.04/ambient.zip",
      "ambient-builds/0.1.0/macos-latest/ambient.zip",
      "ambient-builds/0.9.0/ubuntu-22.04/ambient.zip",
      "ambient-builds/0.10.0/ubuntu-22.04/ambient.zip",
      "ambient-builds/0.2.0-nightly-2023-01-01/ubuntu-22.04/ambient.zip",
      "ambient-builds/0.2.0-nightly-2023-02-01/windows-latest/ambient.zip",
      "ambient-builds/0.2.0-internal-x/ubuntu-22.04/ambient.zip",
      "ambient-builds/0.2.0-internal-x/freebsd-13/ambient.zip",
      "ambient-builds/latest/ubuntu-22.04/ambient.zip",
      "ambient-builds/latest/freebsd-13/ambient.zip" }

\* The BucketItem of a name.
ItemOf(k) == [name |-> k, media_link |-> "link:" \o k]

\* The listings: the store returns distinct objects, in an order of its own.
Listings ==
    { [i \in 1..Len(ks) |-> ItemOf(ks[i])] :
        ks \in { f \in UNION { [1..n -> Keys] : n \in 0..MaxItems } :
                   \A i, j \in 1..Len(f) : i # j => f[i] # f[j] } }

Filters == [include_private : BOOLEAN, include_nightly : BOOLEAN]

\* Version strings callers ask get_version for.
Asked == {"0.1.0", "0.2.0", "0.9.0", "0.2.0-nightly-2023-01-01"}

Trains == {"Stable", "Nightly", "Internal"}

NoCall == [op |-> "none"]

\* Every query fetches the listing afresh and depends on nothing else, so a
\* behaviour follows one query on one listing.

\* A caller runs get_versions(filter).
CallGetVersions ==
    /\ call = NoCall
    /\ \E up \in BOOLEAN, f \in Filters :
          call' = [op |-> "get_versions", filter |-> f, res |-> GetVersionsOf(bucket, up, f)]
    /\ UNCHANGED <<bucket, resVars, instVars, mainVars, cargoVars>>

\* A caller runs get_version(version).
CallGetVersion ==
    /\ call = NoCall
    /\ \E up \in BOOLEAN, v \in Asked :
          call' = [op |-> "get_version", asked |-> v, res |-> GetVersionOf(bucket, up, v)]
    /\ UNCHANGED <<bucket, resVars, instVars, mainVars, cargoVars>>

\* A caller runs resolveLatestForTrain(train, fallback).
CallResolveLatest ==
    /\ call = NoCall
    /\ \E up \in BOOLEAN, t \in Trains, fb \in BOOLEAN :
          call' = [op |-> "latest", train |-> t, fallback |-> fb,
                   res |-> ResolveLatestForTrain(bucket, up, t, fb)]
    /\ UNCHANGED <<bucket, resVars, instVars, mainVars, cargoVars>>
-----------------------------------------------------------------------------
(* The installer: RuntimeVersion::install on the runtimes directory *)

\* Largest number of downloads the model follows.
MaxDownloads == 3

\* Os::current() of the build the model follows (the `else` branch: Linux).
CurrentOs == "Linux"

\* A RuntimeVersion with one build per listed OS.
RuntimeVersionOf(vs, oses) ==
    [version |-> ParseVersion(vs).v,
     builds  |-> [i \in 1..Len(oses) |-> [os |-> oses[i], url |-> "link:" \o vs \o "/" \o oses[i]]]]

\* The versions install() is called on.
InstallTargets ==
    { RuntimeVersionOf("0.1.0", <<"Macos", "Linux">>),
      RuntimeVersionOf("0.9.0", <<"Linux">>),
      RuntimeVersionOf("0.2.0-nightly-2023-02-01", <<"Windows">>) }

\* What a download can deliver: bytes that are no archive, or an archive with
\* its entries in order.
Payloads ==
    { [zip |-> FALSE, entries |-> <<>>],
      [zip |-> TRUE, entries |-> <<>>],
      [zip |-> TRUE, entries |-> <<"ambient">>],
      [zip |-> TRUE, entries |-> <<"README.md">>],
      [zip |-> TRUE, entries |-> <<"README.md", "ambient">>] }

NoData == [zip |-> FALSE, entries |-> <<>>]

NoResult == [ok |-> FALSE, err |-> "none"]

\* RuntimeVersion::dir_path: the directory named by the version's string.
DirPath(r) == VersionToString(r.version)

\* RuntimeVersion::exe_path: the executable inside the version directory.
ExePath(r) == <<DirPath(r), AmbientBinName(CurrentOs)>>

\* is_installed looking for the Windows executable name on every OS.
IsInstalledWrongName(r, files) == <<DirPath(r), AmbientBinName("Windows")>> \in files

\* RuntimeVersion::is_installed: the executable path exists.
IsInstalled(r, files) == ExePath(r) \in files

\* The build download() picks: the first one for the current OS.
BuildForOs(r) ==
    LET own == SelectSeq(r.builds, LAMBDA b : b.os = CurrentOs) IN
    IF own = <<>> THEN [some |-> FALSE] ELSE [some |-> TRUE, build |-> own[1]]

\* install(): the call and its early return when the version is installed.
InstallBegin ==
    /\ ipc = "idle"
    /\ \E r \in InstallTargets :
          /\ rv' = r
          /\ IF IsInstalled(r, fsFiles)
             THEN /\ ires' = [ok |-> TRUE, how |-> "already installed"]
                  /\ ipc' = "idle"
             ELSE /\ ires' = NoResult
                  /\ ipc' = "download"
    /\ UNCHANGED <<fsDirs, fsFiles, netCalls, data, catVars, resVars, mainVars, cargoVars>>

\* download(): no build for this OS, a failed request, or the bytes.
Download ==
    /\ ipc = "download"
    /\ LET b == BuildForOs(rv) IN
       IF ~b.some
       THEN /\ ires' = [ok |-> FALSE, err |-> "No build for this OS"]
            /\ ipc' = "idle"
            /\ UNCHANGED <<netCalls, data>>
       ELSE /\ netCalls < MaxDownloads
            /\ netCalls' = netCalls + 1
            /\ \/ /\ ires' = [ok |-> FALSE, err |-> "download failed"]
                  /\ ipc' = "idle"
                  /\ UNCHANGED data
               \/ /\ data' \in Payloads
                  /\ ipc' = "decode"
                  /\ UNCHANGED ires
    /\ UNCHANGED <<rv, fsDirs, fsFiles, catVars, resVars, mainVars, cargoVars>>

DecodeIntoDirectory ==
    /\ ipc = "decode"
    /\ fsDirs' = fsDirs \cup {DirPath(rv)}
    /\ IF data.zip
       THEN ipc' = "mkdir" /\ UNCHANGED ires
       ELSE ipc' = "idle" /\ ires' = [ok |-> FALSE, err |-> "invalid archive"]
    /\ UNCHANGED <<rv, fsFiles, netCalls, data, catVars, resVars, mainVars, cargoVars>>

\* zip::ZipArchive::new on the downloaded bytes.
Decode ==
    /\ ipc = "decode"
    /\ IF data.zip
       THEN ipc' = "mkdir" /\ UNCHANGED ires
       ELSE ipc' = "idle" /\ ires' = [ok |-> FALSE, err |-> "invalid archive"]
    /\ UNCHANGED <<rv, fsDirs, fsFiles, netCalls, data, catVars, resVars, mainVars, cargoVars>>

\* std::fs::create_dir_all(&path), which may fail.
CreateDir ==
    /\ ipc = "mkdir"
    /\ \/ /\ fsDirs' = fsDirs \cup {DirPath(rv)}
          /\ ipc' = "extract"
          /\ UNCHANGED ires
       \/ /\ ires' = [ok |-> FALSE, err |-> "create_dir_all failed"]
          /\ ipc' = "idle"
          /\ UNCHANGED fsDirs
    /\ UNCHANGED <<rv, fsFiles, netCalls, data, catVars, resVars, mainVars, cargoVars>>

\* arch.extract(&path): the entries in order; a failure at entry n + 1 leaves
\* the first n in place.
Extract ==
    /\ ipc = "extract"
    /\ \E n \in 0..Len(data.entries) :
          /\ fsFiles' = fsFiles \cup {<<DirPath(rv), data.entries[i]>> : i \in 1..n}
          /\ ires' = IF n = Len(data.entries)
                     THEN [ok |-> TRUE, how |-> "installed"]
                     ELSE [ok |-> FALSE, err |-> "extraction failed"]
    /\ ipc' = "idle"
    /\ UNCHANGED <<rv, fsDirs, netCalls, data, catVars, resVars, mainVars, cargoVars>>
-----------------------------------------------------------------------------
(* The requirement resolver, as the specification's component design defines it *)

\* Largest number of locally installed versions.
MaxInstalled == 2

Triple(x) == <<x.major, x.minor, x.patch>>

TripleLess(a, b) ==
    \/ a[1] < b[1]
    \/ a[1] = b[1] /\ a[2] < b[2]
    \/ a[1] = b[1] /\ a[2] = b[2] /\ a[3] < b[3]

\* The numeric comparison of one comparator (operator and major.minor.patch)
\* with a version, as in semver range matching.
NumericMatches(c, v) ==
    LET cv == Triple(c)
        vv == Triple(v)
    IN  CASE c.op = "="  -> vv = cv
          [] c.op = ">=" -> ~TripleLess(vv, cv)
          [] c.op = ">"  -> TripleLess(cv, vv)
          [] c.op = "<"  -> TripleLess(vv, cv)
          [] c.op = "<=" -> ~TripleLess(cv, vv)
          [] c.op = "^"  -> /\ ~TripleLess(vv, cv)
                            /\ IF c.major > 0 THEN v.major = c.major
                               ELSE IF c.minor > 0 THEN v.major = 0 /\ v.minor = c.minor
                               ELSE vv = cv

\* A comparator matched by its numbers alone, whatever the pre-release identifiers.
ComparatorMatchesLoose(c, v) == NumericMatches(c, v)

\* One comparator under exact pre-release matching: when either side carries a
\* pre-release identifier, the numeric comparison and equal identifiers.
ComparatorMatchesExact(c, v) ==
    IF c.pre # "" \/ v.pre # ""
    THEN NumericMatches(c, v) /\ c.pre = v.pre
    ELSE NumericMatches(c, v)

\* matchesExact(requirement, version): every comparator matches.
MatchesExact(req, v) == \A i \in 1..Len(req) : ComparatorMatchesExact(req[i], v)

\* The last version of a sequence that satisfies the requirement.
LastMatch(req, versions) ==
    LET hits == {i \in 1..Len(versions) : MatchesExact(req, versions[i])} IN
    IF hits = {} THEN [some |-> FALSE]
    ELSE [some |-> TRUE, version |-> versions[CHOOSE i \in hits : \A j \in hits : i >= j]]

\* The first version of a sequence that satisfies the requirement.
FirstMatch(req, versions) ==
    LET hits == {i \in 1..Len(versions) : MatchesExact(req, versions[i])} IN
    IF hits = {} THEN [some |-> FALSE]
    ELSE [some |-> TRUE, version |-> versions[CHOOSE i \in hits : \A j \in hits : i <= j]]

Comparator(op, vs, pre) ==
    [op |-> op, major |-> ParseVersion(vs).v.major, minor |-> ParseVersion(vs).v.minor,
     patch |-> ParseVersion(vs).v.patch, pre |-> pre]

\* The requirements callers resolve.
Requirements ==
    { <<Comparator("^", "0.1.0", "")>>,
      <<Comparator("^", "2.0.0", "")>>,
      <<Comparator(">=", "0.1.0", "")>>,
      <<Comparator(">=", "0.2.0", ""), Comparator("<", "0.10.0", "")>>,
      <<Comparator("=", "0.2.0", "nightly-2023-02-01")>>,
      <<Comparator(">=", "0.0.0", "nightly-2023-01-01")>>,
      <<Comparator(">=", "0.0.0", "internal-x")>> }

\* Version strings found as settings default or as names in the runtimes directory.
LocalNames == {"0.1.0", "0.9.0", "0.2.0-nightly-2023-02-01", "0.2.0-internal-x"}

NoDefault == [some |-> FALSE]

\* The listings the resolver's catalog is drawn from.
ResolveListings ==
    { <<>>,
      <<ItemOf("ambient-builds/0.1.0/ubuntu-22.04/ambient.zip"),
        ItemOf("ambient-builds/0.10.0/ubuntu-22.04/ambient.zip"),
        ItemOf("ambient-builds/0.9.0/ubuntu-22.04/ambient.zip")>>,
      <<ItemOf("ambient-builds/0.2.0-internal-x/ubuntu-22.04/ambient.zip"),
        ItemOf("ambient-builds/0.2.0-nightly-2023-01-01/ubuntu-22.04/ambient.zip"),
        ItemOf("ambient-builds/0.2.0-nightly-2023-02-01/windows-latest/ambient.zip")>> }

AllSources == <<"default", "installed", "catalog">>

\* resolve(requirement, settings) is called.
ResolveBegin ==
    /\ rpc = "idle"
    /\ rreq' \in Requirements
    /\ consulted' = <<>>
    /\ rres' = NoResult
    /\ rpc' = "default"
    /\ UNCHANGED <<settings, installed, catVars, instVars, mainVars, cargoVars>>

\* Source 1: the configured default, if set and if it matches.
ConsultDefault ==
    /\ rpc = "default"
    /\ consulted' = Append(consulted, "default")
    /\ IF settings.some /\ MatchesExact(rreq, settings.version)
       THEN /\ rres' = [ok |-> TRUE, version |-> settings.version, source |-> "default"]
            /\ rpc' = "idle"
       ELSE /\ rpc' = "installed"
            /\ UNCHANGED rres
    /\ UNCHANGED <<settings, installed, rreq, catVars, instVars, mainVars, cargoVars>>

\* Source 2: the locally installed versions, in discovery order.
ConsultInstalled ==
    /\ rpc = "installed"
    /\ consulted' = Append(consulted, "installed")
    /\ LET hit == FirstMatch(rreq, installed) IN
       IF hit.some
       THEN /\ rres' = [ok |-> TRUE, version |-> hit.version, source |-> "installed"]
            /\ rpc' = "idle"
       ELSE /\ rpc' = "catalog"
            /\ UNCHANGED rres
    /\ UNCHANGED <<settings, installed, rreq, catVars, instVars, mainVars, cargoVars>>

\* Source 3: the full remote catalog, in its ascending sort order.
ConsultCatalog ==
    /\ rpc = "catalog"
    /\ consulted' = Append(consulted, "catalog")
    /\ \E up \in BOOLEAN :
          LET got == GetVersionsOf(bucket, up, [include_private |-> TRUE,
                                                include_nightly |-> TRUE])
          IN  IF ~got.ok THEN rres' = [ok |-> FALSE, err |-> "CatalogUnavailable"]
              ELSE LET hit == FirstMatch(rreq, [i \in 1..Len(got.versions) |->
                                                    got.versions[i].version])
                   IN  rres' = IF hit.some
                               THEN [ok |-> TRUE, version |-> hit.version, source |-> "catalog"]
                               ELSE [ok |-> FALSE, err |-> "NoSatisfyingVersion"]
    /\ rpc' = "idle"
    /\ UNCHANGED <<settings, installed, rreq, catVars, instVars, mainVars, cargoVars>>
-----------------------------------------------------------------------------
(* main.rs: the `ambl` entry point, its config file and its runtime files *)

\* str::replace of one character by another.
RECURSIVE Replace(_, _, _)
Replace(s, from, to) ==
    IF Len(s) = 0 THEN ""
    ELSE (IF Char(s, 1) = from THEN to ELSE Char(s, 1))
             \o Replace(SubSeq(s, 2, Len(s)), from, to)

\* Vec::contains on the arguments.
HasArg(args, a) == \E i \in 1..Len(args) : args[i] = a

\* The version the first run writes into a missing config.toml.
DefaultVersion == "0.2.1"

\* Dates the nightly DateSelect prompt can return.
NightlyDates == {"2023-09-07", "2023-09-08"}

\* Values of package.ambient_version in ./ambient.toml, and the other shapes of
\* the file: absent, without the key, the key holding a non-string.
ManifestStrings == {"0.2.1", "0.3.0-nightly-2023-09-07", "0.3.0-internal-x", ">=0.2.0"}

Manifests ==
    { [state |-> "absent", val |-> ""],
      [state |-> "nokey", val |-> ""],
      [state |-> "nonstring", val |-> ""] }
        \cup { [state |-> "string", val |-> v] : v \in ManifestStrings }

\* The runtime file main looks for: ~/.ambient/ambient-<version, dots as dashes>.
RuntimePath(version) == "ambient-" \o Replace(version, ".", "-")

\* Versions main can come to run, hence the runtime files it can touch.
MainVersions ==
    {DefaultVersion} \cup {"0.3.0-nightly-" \o d : d \in NightlyDates} \cup ManifestStrings

RuntimePaths == {RuntimePath(v) : v \in MainVersions}

NoConfig == [exists |-> FALSE]

\* Command lines of a run.
ArgSets ==
    { <<>>, <<"set-default">>, <<"run">>, <<"new", "proj">> }

\* Archives the release server can deliver: the entries a download extracts.
MainPayloads ==
    { [zip |-> FALSE, entries |-> <<>>],
      [zip |-> TRUE, entries |-> <<"ambient">>],
      [zip |-> TRUE, entries |-> <<"ambient/", "ambient">>] }

Event(ev, v) == [ev |-> ev, v |-> v]

\* set_version: config.toml with `default` set to the version.
SetVersion(cfg, version) == [exists |-> TRUE, default |-> version]

\* get_version: the config's default; a missing config.toml is created with
\* the default version, which is returned.
GetVersion(cfg) ==
    IF ~cfg.exists
    THEN [version |-> DefaultVersion, config |-> [exists |-> TRUE, default |-> DefaultVersion],
          wrote |-> TRUE]
    ELSE [version |-> cfg.default, config |-> cfg, wrote |-> FALSE]

\* get_url: the version must parse; the URL depends on "nightly" in the string.
GetUrl(version, os) ==
    LET p == ParseVersion(version) IN
    IF ~p.ok THEN [ok |-> FALSE, err |-> "Failed to parse version"]
    ELSE IF os \notin {"windows", "macos", "ubuntu"} THEN [ok |-> FALSE, err |-> "Unsupported OS"]
    ELSE IF ~Contains(version, "nightly")
    THEN [ok |-> TRUE, url |-> "release:v" \o NatToStr(p.v.major) \o "." \o NatToStr(p.v.minor)
                                  \o "." \o NatToStr(p.v.patch) \o "/" \o os]
    ELSE [ok |-> TRUE, url |-> "nightly:" \o p.v.pre \o "/" \o os]

\* main is started with some arguments, in some directory.
MainStart ==
    /\ mpc = "idle"
    /\ margs' \in ArgSets
    /\ manifest' \in Manifests
    /\ mlog' = <<>>
    /\ mversion' = ""
    /\ mpc' = IF Len(margs') > 0 /\ margs'[1] = "set-default" THEN "prompt" ELSE "resolve"
    /\ UNCHANGED <<config, homeFiles, hostOs, catVars, resVars, instVars, cargoVars>>

\* `ambl set-default`: the prompt, then set_version on the choice.
SetDefault ==
    /\ mpc = "prompt"
    /\ \/ /\ config' = SetVersion(config, "0.2.1")
          /\ mlog' = mlog \o <<Event("config_write", "0.2.1"), Event("ok", "")>>
       \/ \E d \in NightlyDates :
             /\ config' = SetVersion(config, "0.3.0-nightly-" \o d)
             /\ mlog' = mlog \o <<Event("config_write", "0.3.0-nightly-" \o d), Event("ok", "")>>
       \/ /\ mlog' = Append(mlog, Event("error", "prompt failed"))
          /\ UNCHANGED config
    /\ mpc' = "idle"
    /\ UNCHANGED <<manifest, homeFiles, hostOs, margs, mversion, catVars, resVars, instVars, cargoVars>>

\* The `version` local: from ./ambient.toml for run, deploy and build, from
\* get_version() otherwise and when ambient_version is no string.
ResolveVersion ==
    /\ mpc = "resolve"
    /\ LET useManifest == HasArg(margs, "run") \/ HasArg(margs, "deploy") \/ HasArg(margs, "build")
           got == GetVersion(config)
       IN  IF useManifest /\ manifest.state = "absent"
           THEN /\ mlog' = Append(mlog, Event("error", "ambient.toml file not found"))
                /\ mpc' = "idle"
                /\ UNCHANGED <<config, mversion>>
           ELSE IF useManifest /\ manifest.state = "nokey"
           THEN /\ mlog' = Append(mlog, Event("panic", "index not found"))
                /\ mpc' = "idle"
                /\ UNCHANGED <<config, mversion>>
           ELSE IF useManifest /\ manifest.state = "string"
           THEN /\ mversion' = manifest.val
                /\ mlog' = Append(mlog, Event("version_from_manifest", manifest.val))
                /\ mpc' = "locate"
                /\ UNCHANGED config
           ELSE /\ mversion' = got.version
                /\ config' = got.config
                /\ mlog' = mlog \o (IF got.wrote THEN <<Event("config_create", got.version)>>
                                    ELSE <<>>)
                                \o <<Event("version_from_config", got.version)>>
                /\ mpc' = "locate"
    /\ UNCHANGED <<manifest, homeFiles, hostOs, margs, catVars, resVars, instVars, cargoVars>>
\* What is at a runtime path: nothing, an empty file, a file cut short, a
\* directory, or a complete file.
FileKinds == {"absent", "empty", "partial", "dir", "file"}

\* The extraction loop of download() on the single output path: a directory
\* entry does create_dir_all on it, a file entry creates it and copies into it;
\* any step may fail. The set of <<what is left at the path, success>>.
RECURSIVE ExtractOutcomes(_, _)
ExtractOutcomes(kind, entries) ==
    IF entries = <<>> THEN {<<kind, TRUE>>}
    ELSE LET e == entries[1] IN
         IF Char(e, Len(e)) = "/"
         THEN IF kind \in {"empty", "partial", "file"}
              THEN {<<kind, FALSE>>}
              ELSE {<<kind, FALSE>>} \cup ExtractOutcomes("dir", Tail(entries))
         ELSE IF kind = "dir"
              THEN {<<kind, FALSE>>}
              ELSE {<<kind, FALSE>>, <<"empty", FALSE>>, <<"partial", FALSE>>}
                       \cup ExtractOutcomes("file", Tail(entries))

\* is_stable, the runtime path for this OS, and the test whether to download.
Locate ==
    /\ mpc = "locate"
    /\ LET path == RuntimePath(mversion)
           url  == GetUrl(mversion, hostOs)
       IN  IF hostOs \notin {"macos", "ubuntu"}
           THEN /\ mlog' = Append(mlog, Event("error", "Unsupported OS"))
                /\ mpc' = "idle"
           ELSE IF homeFiles[path] = "absent" \/ homeFiles[path] = "empty"
           THEN IF ~url.ok
                THEN /\ mlog' = Append(mlog, Event("error", url.err))
                     /\ mpc' = "idle"
                ELSE /\ mlog' = Append(mlog, Event(IF ~Contains(mversion, "nightly")
                                                   THEN "download_stable"
                                                   ELSE "download_nightly", mversion))
                     /\ mpc' = "download"
           ELSE /\ mlog' = Append(mlog, Event("found", mversion))
                /\ mpc' = "spawn"
    /\ UNCHANGED <<config, manifest, homeFiles, hostOs, margs, mversion,
                   catVars, resVars, instVars, cargoVars>>

\* download(): fetch the archive, extract it onto the runtime path, chmod.
MainDownload ==
    /\ mpc = "download"
    /\ LET path == RuntimePath(mversion) IN
       \/ /\ mlog' = Append(mlog, Event("error", "download failed"))
          /\ mpc' = "idle"
          /\ UNCHANGED homeFiles
       \/ \E p \in MainPayloads :
             IF ~p.zip
             THEN /\ mlog' = Append(mlog, Event("error", "invalid archive"))
                  /\ mpc' = "idle"
                  /\ UNCHANGED homeFiles
             ELSE \E o \in ExtractOutcomes(homeFiles[path], p.entries) :
                     /\ homeFiles' = [homeFiles EXCEPT ![path] = o[1]]
                     /\ IF o[2]
                        THEN /\ mlog' = Append(mlog, Event("install_ok", mversion))
                             /\ mpc' = "spawn"
                        ELSE /\ mlog' = Append(mlog, Event("error", "extraction failed"))
                             /\ mpc' = "idle"
    /\ UNCHANGED <<config, manifest, hostOs, margs, mversion, catVars, resVars, instVars, cargoVars>>

\* The runtime is spawned with the arguments; `new` then records the version
\* in the new project's ambient.toml.
Spawn ==
    /\ mpc = "spawn"
    /\ LET kind == homeFiles[RuntimePath(mversion)] IN
       \/ /\ kind \in {"file", "partial"}
          /\ mlog' = mlog \o <<Event("spawned", mversion)>>
                          \o (IF HasArg(margs, "new")
                              THEN <<Event("manifest_write", mversion)>> ELSE <<>>)
                          \o <<Event("ok", "")>>
       \/ /\ kind # "file"
          /\ mlog' = Append(mlog, Event("panic", "Failed to execute command"))
    /\ mpc' = "idle"
    /\ UNCHANGED <<config, manifest, homeFiles, hostOs, margs, mversion,
                   catVars, resVars, instVars, cargoVars>>

-----------------------------------------------------------------------------
(* Cargo.toml (environment.rs) *)

\* An item of a toml_edit document: nothing, a string, an inline table or a
\* table. A table keeps its entries in the order of the file.
NoItem == [form |-> "none", str |-> "", items |-> <<>>]

Str(s) == [form |-> "string", str |-> s, items |-> <<>>]

InlineTable(es) == [form |-> "inline", str |-> "", items |-> es]

Table(es) == [form |-> "table", str |-> "", items |-> es]

Entry(k, v) == [key |-> k, val |-> v]

HasKey(t, k) == \E i \in 1..Len(t.items) : t.items[i].key = k

\* t[k], the item under key k.
Get(t, k) ==
    IF HasKey(t, k)
    THEN t.items[CHOOSE i \in 1..Len(t.items) : t.items[i].key = k].val
    ELSE NoItem

\* t[k] = v through IndexMut: an item that is nothing becomes an inline table,
\* an entry that exists is overwritten where it stands, a new one goes last.
Put(t, k, v) ==
    LET base == IF t.form = "none" THEN InlineTable(<<>>) ELSE t
    IN  IF HasKey(base, k)
        THEN [base EXCEPT !.items = [i \in 1..Len(base.items) |->
                                        IF base.items[i].key = k THEN Entry(k, v)
                                        ELSE base.items[i]]]
        ELSE [base EXCEPT !.items = Append(base.items, Entry(k, v))]

AmbientGit == "https://github.com/AmbientRun/Ambient.git"

SetCargoTomlAmbientApiBareTag(doc, version) ==
    LET rec == IF version.pre = ""
               THEN Str(VersionToString(version))
               ELSE InlineTable(<<Entry("git", Str(AmbientGit)),
                                  Entry("tag", Str(VersionToString(version)))>>)
    IN  Put(doc, "dependencies", Put(Get(doc, "dependencies"), "ambient_api", rec))

\* set_cargo_toml_ambient_api: doc["dependencies"]["ambient_api"] becomes the
\* version string, or a git/tag inline table for a version with a pre-release.
SetCargoTomlAmbientApi(doc, version) ==
    LET rec == IF version.pre = ""
               THEN Str(VersionToString(version))
               ELSE InlineTable(<<Entry("git", Str(AmbientGit)),
                                  Entry("tag", Str("v" \o VersionToString(version)))>>)
    IN  Put(doc, "dependencies", Put(Get(doc, "dependencies"), "ambient_api", rec))

\* Versions handed to set_ambient_api.
CargoVersions == {"0.3.0", "0.4.0", "0.3.0-nightly-2023-09-28", "0.3.0-internal-x"}

\* Forms of the ambient_api entry of a manifest: none, a version string, a
\* git/tag inline table, a path inline table, a [dependencies.ambient_api] table.
AmbientApiForms ==
    { NoItem,
      Str("0.3.0"),
      InlineTable(<<Entry("git", Str(AmbientGit)),
                    Entry("tag", Str("v0.3.0-nightly-2023-09-27"))>>),
      InlineTable(<<Entry("path", Str("../api"))>>),
      Table(<<Entry("version", Str("0.3.0"))>>) }

DependencyTables ==
    { front \o mid \o back :
        front \in {<<>>, <<Entry("serde", Str("1.0"))>>},
        mid \in { IF f = NoItem THEN <<>> ELSE <<Entry("ambient_api", f)>> : f \in AmbientApiForms },
        back \in {<<>>, <<Entry("glam", Str("0.24"))>>} }

\* Cargo manifests: a package, perhaps dependencies, perhaps dev-dependencies.
CargoDocs ==
    { Table(<<Entry("package", Table(<<Entry("name", Str("my_project"))>>))>> \o deps \o dev) :
        deps \in {<<>>} \cup { <<Entry("dependencies", Table(d))>> : d \in DependencyTables },
        dev \in {<<>>, <<Entry("dev-dependencies", Table(<<Entry("ambient_api", Str("0.3.0"))>>))>>} }

NoFile == [state |-> "absent", doc |-> NoItem]

NoCargoCall == [op |-> "none"]

\* CargoTomlPath::set_ambient_api: read and parse Cargo.toml, set the entry,
\* write the document back.
SetAmbientApi ==
    \E n \in CargoVersions :
        LET version == ParseVersion(n).v
            Called(res) == [op |-> "set_ambient_api", version |-> version,
                            before |-> cargoToml, res |-> res]
        IN  /\ IF cargoToml.state = "absent"
               THEN /\ cargoCall' = Called([ok |-> FALSE, err |-> "No ambient.toml found at path"])
                    /\ UNCHANGED cargoToml
               ELSE IF cargoToml.state = "invalid"
               THEN /\ cargoCall' = Called([ok |-> FALSE, err |-> "Invalid Cargo.toml"])
                    /\ UNCHANGED cargoToml
               ELSE /\ cargoToml' = [cargoToml EXCEPT !.doc = SetCargoTomlAmbientApi(@, version)]
                    /\ cargoCall' = Called([ok |-> TRUE, err |-> "none"])
            /\ UNCHANGED <<catVars, resVars, instVars, mainVars>>

-----------------------------------------------------------------------------
(* Specifications *)

NoRuntimeVersion == RuntimeVersionOf("0.1.0", <<>>)

IdleCatalog == bucket = <<>> /\ call = NoCall

IdleResolver ==
    /\ settings = NoDefault /\ installed = <<>> /\ rpc = "idle"
    /\ rreq = <<>> /\ consulted = <<>> /\ rres = NoResult

IdleInstaller ==
    /\ rv = NoRuntimeVersion /\ ipc = "idle" /\ fsDirs = {} /\ fsFiles = {}
    /\ netCalls = 0 /\ data = NoData /\ ires = NoResult

IdleMain ==
    /\ config = NoConfig /\ manifest = [state |-> "absent", val |-> ""]
    /\ homeFiles = [p \in RuntimePaths |-> "absent"] /\ hostOs = "macos"
    /\ mpc = "idle" /\ margs = <<>> /\ mversion = "" /\ mlog = <<>>

IdleCargo == cargoToml = NoFile /\ cargoCall = NoCargoCall

\* The catalog: any listing of the store, then queries on it.
InitCatalog ==
    /\ bucket \in Listings /\ call = NoCall
    /\ IdleResolver /\ IdleInstaller /\ IdleMain /\ IdleCargo

NextCatalog == CallGetVersions \/ CallGetVersion \/ CallResolveLatest

SpecCatalog == InitCatalog /\ [][NextCatalog]_vars

\* The resolver: any default, any installed versions, a catalog.
InitResolve ==
    /\ bucket \in ResolveListings /\ call = NoCall
    /\ settings \in {NoDefault} \cup {[some |-> TRUE, version |-> ParseVersion(n).v] : n \in LocalNames}
    /\ installed \in { [i \in 1..Len(ns) |-> ParseVersion(ns[i]).v] :
                         ns \in { f \in UNION { [1..n -> LocalNames] : n \in 0..MaxInstalled } :
                                    \A i, j \in 1..Len(f) : i # j => f[i] # f[j] } }
    /\ rpc = "idle" /\ rreq = <<>> /\ consulted = <<>> /\ rres = NoResult
    /\ IdleInstaller /\ IdleMain /\ IdleCargo

NextResolve == ResolveBegin \/ ConsultDefault \/ ConsultInstalled \/ ConsultCatalog

SpecResolve == InitResolve /\ [][NextResolve]_vars

\* The installer: an empty runtimes directory, then install calls.
InitInstall == IdleCatalog /\ IdleResolver /\ IdleInstaller /\ IdleMain /\ IdleCargo

NextInstall == InstallBegin \/ Download \/ Decode \/ CreateDir \/ Extract

SpecInstall == InitInstall /\ [][NextInstall]_vars

\* main.rs: a fresh home directory on some machine, then runs of `ambl`.
InitMain ==
    /\ IdleCatalog /\ IdleResolver /\ IdleInstaller /\ IdleCargo
    /\ config = NoConfig /\ manifest = [state |-> "absent", val |-> ""]
    /\ homeFiles = [p \in RuntimePaths |-> "absent"]
    /\ hostOs \in {"macos", "linux", "windows"}
    /\ mpc = "idle" /\ margs = <<>> /\ mversion = "" /\ mlog = <<>>

NextMain == MainStart \/ SetDefault \/ ResolveVersion \/ Locate \/ MainDownload \/ Spawn

SpecMain == InitMain /\ [][NextMain]_vars

\* Cargo.toml: a missing, unparseable or well-formed manifest, then calls of
\* set_ambient_api.
InitCargo ==
    /\ IdleCatalog /\ IdleResolver /\ IdleInstaller /\ IdleMain
    /\ cargoToml \in {NoFile, [state |-> "invalid", doc |-> NoItem]}
                        \cup { [state |-> "doc", doc |-> d] : d \in CargoDocs }
    /\ cargoCall = NoCargoCall

NextCargo == SetAmbientApi

SpecCargo == InitCargo /\ [][NextCargo]_vars

Init == InitCatalog \/ InitResolve \/ InitInstall \/ InitMain \/ InitCargo

Next == NextCatalog \/ NextResolve \/ NextInstall \/ NextMain \/ NextCargo

Spec == Init /\ [][Next]_vars
-----------------------------------------------------------------------------
(* Properties of the catalog (SpecCatalog) *)

\* The versions that parse out of the names of the listing.
ListedVersions == {VersionFromPath(bucket[k].name).v :
                      k \in {k \in 1..Len(bucket) : VersionFromPath(bucket[k].name).ok}}

Listed == call.op = "get_versions" /\ call.res.ok

\* C1: the list get_versions returns is ascending in semantic version order, so
\* its last element is the highest version present.
C1_SortedSemantic ==
    Listed =>
        \A i, j \in 1..Len(call.res.versions) :
            i < j => ~VersionLess(call.res.versions[j].version, call.res.versions[i].version)

\* C2: every Version appears in at most one RuntimeVersion of the result, whatever
\* the order of the listing, and a RuntimeVersion holds builds of its own version only.
C2_UniquePerVersion ==
    Listed =>
        /\ \A i, j \in 1..Len(call.res.versions) :
              i # j => call.res.versions[i].version # call.res.versions[j].version
        /\ \A i \in 1..Len(call.res.versions), k \in 1..Len(bucket) :
              (\E b \in 1..Len(call.res.versions[i].builds) :
                   call.res.versions[i].builds[b].url = bucket[k].media_link)
                 => /\ VersionFromPath(bucket[k].name).ok
                    /\ VersionFromPath(bucket[k].name).v = call.res.versions[i].version

ExampleVersions ==
    { ParseVersion("0.1.0").v, ParseVersion("0.2.0-nightly-2023-01-01").v,
      ParseVersion("0.2.0-internal-x").v }

\* C3: the visibility filter is exact: without includePrivate no Internal version
\* is returned, without includeNightly no Nightly version, a Stable version is
\* never dropped, and {0.1.0, 0.2.0-nightly-2023-01-01, 0.2.0-internal-x} with
\* both flags false gives 0.1.0 alone.
C3_FilterExact ==
    Listed =>
        LET vs == call.res.versions
            f  == call.filter
        IN  /\ ~f.include_private =>
                  \A i \in 1..Len(vs) :
                      vs[i].version.pre = "" \/ Contains(vs[i].version.pre, "nightly")
            /\ ~f.include_nightly =>
                  \A i \in 1..Len(vs) : ~Contains(vs[i].version.pre, "nightly")
            /\ \A v \in ListedVersions :
                  v.pre = "" => \E i \in 1..Len(vs) : vs[i].version = v
            /\ (ListedVersions = ExampleVersions /\ ~f.include_private /\ ~f.include_nightly)
                  => {vs[i].version : i \in 1..Len(vs)} = {ParseVersion("0.1.0").v}

\* C3 witness: the three example versions listed and filtered with both flags false.
C3_Witness ==
    /\ Listed
    /\ ListedVersions = ExampleVersions
    /\ ~call.filter.include_private /\ ~call.filter.include_nightly
    /\ Len(call.res.versions) = 1

\* C5: get_version(v) returns the RuntimeVersion whose version is exactly v, or
\* fails; it never returns another version that has v as a prefix of its string.
C5_ExactOrNotFound ==
    (call.op = "get_version" /\ call.res.ok)
        => VersionToString(call.res.version.version) = call.asked

\* The highest of a non-empty set of versions in semantic order.
Highest(S) == CHOOSE v \in S : \A w \in S : ~VersionLess(v, w)

OfTrain(S, t) ==
    {v \in S : (IF v.pre = "" THEN "Stable"
                ELSE IF Contains(v.pre, "nightly") THEN "Nightly" ELSE "Internal") = t}

\* C10: resolveLatestForTrain returns the semantically highest catalog version of
\* the requested train; with none of that train, the highest Nightly version if
\* fallback is permitted, and NoVersionsForTrain otherwise.
C10_LatestOfTrain ==
    (call.op = "latest" /\ (call.res.ok \/ call.res.err = "NoVersionsForTrain")) =>
        LET same    == OfTrain(ListedVersions, call.train)
            nightly == OfTrain(ListedVersions, "Nightly")
        IN  IF same # {} THEN call.res.ok /\ call.res.version.version = Highest(same)
            ELSE IF call.fallback /\ nightly # {}
                 THEN call.res.ok /\ call.res.version.version = Highest(nightly)
            ELSE ~call.res.ok
-----------------------------------------------------------------------------
(* Properties of the installer (SpecInstall) *)

\* C4: once a version's executable exists, an install call on that version
\* returns success at once, without a download and without a change on disk,
\* and the executable path is still there.
C4_InstallIdempotent ==
    [][(InstallBegin /\ <<VersionToString(rv'.version), "ambient">> \in fsFiles)
          => /\ ipc' = "idle"
             /\ ires'.ok
             /\ netCalls' = netCalls
             /\ fsDirs' = fsDirs /\ fsFiles' = fsFiles
             /\ ExePath(rv') \in fsFiles']_vars

\* C4 witness: a second install call on a version installed by an earlier download.
C4_Witness ==
    /\ ipc = "idle"
    /\ ires = [ok |-> TRUE, how |-> "already installed"]
    /\ <<VersionToString(rv.version), "ambient">> \in fsFiles
    /\ netCalls >= 1

-----------------------------------------------------------------------------
(* Properties of main.rs (SpecMain) *)

\* C6: a write of a newly chosen default version to the settings (set_version)
\* is preceded, in the same run, by a successful install of that version.
C6_SaveAfterInstall ==
    \A i \in 1..Len(mlog) :
        mlog[i].ev = "config_write" =>
            \E j \in 1..(i - 1) : mlog[j].ev = "install_ok" /\ mlog[j].v = mlog[i].v

\* C9: the version of a run is the manifest's when the manifest declares one,
\* the configured default when it declares none, and with neither the run fails
\* instead of settling on a version of its own.
C9_ResolveCurrent ==
    mpc = "locate" =>
        IF manifest.state = "string" THEN mversion = manifest.val
        ELSE /\ mversion = config.default
             /\ \A i \in 1..Len(mlog) : mlog[i].ev # "config_create"

-----------------------------------------------------------------------------
(* Properties of the resolver (SpecResolve) *)

Resolved == rpc = "idle" /\ consulted # <<>>

DefaultMatches == settings.some /\ MatchesExact(rreq, settings.version)

InstalledMatches == {i \in 1..Len(installed) : MatchesExact(rreq, installed[i])}

\* C7: resolve consults the default, then the installed versions in discovery
\* order, then the catalog, and returns the first match; a matching default ends
\* it before the other sources are consulted, and NoSatisfyingVersion comes only
\* after all three were consulted without a match.
C7_ResolveOrder ==
    /\ consulted = SubSeq(AllSources, 1, Len(consulted))
    /\ Resolved =>
          /\ DefaultMatches =>
                /\ rres.ok /\ rres.source = "default" /\ rres.version = settings.version
                /\ consulted = <<"default">>
          /\ (rres.ok /\ rres.source = "installed") =>
                /\ ~DefaultMatches
                /\ consulted = <<"default", "installed">>
                /\ \E i \in InstalledMatches :
                      /\ rres.version = installed[i]
                      /\ \A j \in InstalledMatches : i <= j
          /\ (rres.ok /\ rres.source = "catalog") =>
                /\ ~DefaultMatches /\ InstalledMatches = {}
                /\ consulted = AllSources
                /\ rres.version \in ListedVersions /\ MatchesExact(rreq, rres.version)
          /\ (~rres.ok /\ rres.err = "NoSatisfyingVersion") =>
                /\ consulted = AllSources
                /\ ~DefaultMatches /\ InstalledMatches = {}
                /\ \A v \in ListedVersions : ~MatchesExact(rreq, v)

\* C7 witness: the default matches while a later installed version matches too.
C7_Witness ==
    /\ Resolved /\ rres.ok /\ rres.source = "default"
    /\ \E i \in InstalledMatches : installed[i] # settings.version

\* C8: a comparator or a version with a pre-release identifier matches only with
\* the numeric comparison and equal identifiers; so a requirement without
\* pre-release never yields a nightly or internal build, and one pinned to an
\* identifier never yields a version with another identifier.
C8_ExactPrerelease ==
    (rpc = "idle" /\ rres.ok) =>
        /\ \A i \in 1..Len(rreq) :
              (rreq[i].pre # "" \/ rres.version.pre # "")
                 => NumericMatches(rreq[i], rres.version) /\ rreq[i].pre = rres.version.pre
        /\ (\A i \in 1..Len(rreq) : rreq[i].pre = "") => rres.version.pre = ""
        /\ \A i \in 1..Len(rreq) : rreq[i].pre # "" => rres.version.pre = rreq[i].pre

\* C8 witness: the default is a pre-release build whose numbers satisfy a
\* requirement without pre-release, and resolve passes it over.
C8_Witness ==
    /\ rpc = "idle" /\ rres.ok
    /\ settings.some /\ settings.version.pre # ""
    /\ \A i \in 1..Len(rreq) : rreq[i].pre = "" /\ NumericMatches(rreq[i], settings.version)
-----------------------------------------------------------------------------
(* Installed means the executable exists (SpecMain, SpecInstall) *)

\* C11: a version is treated as installed only when its executable exists: a run
\* that skips the download has found the complete runtime file, not a directory
\* or a file an earlier failed attempt left behind.
C11_InstalledMeansExecutable ==
    \A i \in 1..Len(mlog) :
        mlog[i].ev = "found" => homeFiles[RuntimePath(mlog[i].v)] = "file"

\* The same for RuntimeVersion::install: after a failed attempt that left the
\* version directory without the executable, the next call does not return early.
InstallAgainAfterFailure ==
    [][(InstallBegin /\ ExePath(rv') \notin fsFiles) => ipc' = "download"]_vars
-----------------------------------------------------------------------------
(* Errors of the listing (SpecCatalog) *)

OsTokens == {"macos-latest", "windows-latest", "ubuntu-22.04"}

\* The listed names whose version parses but whose OS token is not recognized.
BadOsKeys ==
    {k \in 1..Len(bucket) :
        /\ VersionFromPath(bucket[k].name).ok
        /\ Nth(Split(bucket[k].name, "/"), 2).val \notin OsTokens}

Answered == call.op = "get_versions" /\ (call.res.ok \/ call.res.err # "request failed")

\* C12: a name whose version does not parse is dropped without a failure; a name
\* whose version parses but whose OS token is unrecognized makes the call fail,
\* under every visibility filter, also when that version would be filtered out.
C12_InvalidArtifacts ==
    Answered =>
        /\ call.res.ok <=> BadOsKeys = {}
        /\ ~call.res.ok => call.res.err = "Invalid OS"
        /\ call.res.ok =>
              \A i \in 1..Len(call.res.versions) :
                  /\ call.res.versions[i].version \in ListedVersions
                  /\ \A b \in 1..Len(call.res.versions[i].builds) :
                        \E k \in 1..Len(bucket) :
                            /\ bucket[k].media_link = call.res.versions[i].builds[b].url
                            /\ VersionFromPath(bucket[k].name).ok

\* C12 witness: the only offending name has an Internal version, the filter
\* would drop it, and the call fails all the same.
C12_Witness ==
    /\ Answered /\ ~call.res.ok
    /\ ~call.filter.include_private /\ ~call.filter.include_nightly
    /\ \A k \in BadOsKeys : VersionFromPath(bucket[k].name).v.pre = "internal-x"
    /\ \E k \in 1..Len(bucket) : ~VersionFromPath(bucket[k].name).ok
-----------------------------------------------------------------------------
(* Release trains in main.rs (SpecMain) *)

\* C13: every version falls in exactly one train (Stable iff no pre-release,
\* Nightly iff the pre-release contains "nightly", Internal otherwise), is_public
\* holds exactly for Stable and Nightly, and where main decides between a stable
\* and a nightly download it agrees with the train: an Internal version is not
\* downloaded as a stable one.
C13_TrainsAgree ==
    \A i \in 1..Len(mlog) :
        mlog[i].ev \in {"download_stable", "download_nightly"} =>
            LET v     == ParseVersion(mlog[i].v).v
                train == ReleaseTrainFromVersion(v)
            IN  /\ train = "Stable" <=> v.pre = ""
                /\ train = "Nightly" <=> (v.pre # "" /\ Contains(v.pre, "nightly"))
                /\ train = "Internal" <=> (v.pre # "" /\ ~Contains(v.pre, "nightly"))
                /\ IsPublic([version |-> v, builds |-> <<>>]) <=> train \in {"Stable", "Nightly"}
                /\ mlog[i].ev = "download_stable" => train = "Stable"
                /\ mlog[i].ev = "download_nightly" => train = "Nightly"
-----------------------------------------------------------------------------
(* Properties of the Cargo.toml rewrite (SpecCargo) *)

OtherEntries(t, k) == SelectSeq(t.items, LAMBDA e : e.key # k)

\* C14: after set_cargo_toml_ambient_api(doc, v), dependencies.ambient_api is
\* the plain version string of v when v has no pre-release and the inline table
\* {git = the Ambient repository, tag = "v" + v} when it has one, whatever the
\* entry was before; every other entry of the document and of its dependencies
\* is as it was and where it was, and a second application with the same v
\* changes nothing.
C14_SetAmbientApi ==
    (cargoCall.op = "set_ambient_api" /\ cargoCall.res.ok) =>
        LET v      == cargoCall.version
            before == cargoCall.before.doc
            after  == cargoToml.doc
            deps0  == Get(before, "dependencies")
            deps1  == Get(after, "dependencies")
        IN  /\ Get(deps1, "ambient_api") =
                  IF v.pre = ""
                  THEN Str(VersionToString(v))
                  ELSE InlineTable(<<Entry("git", Str("https://github.com/AmbientRun/Ambient.git")),
                                     Entry("tag", Str("v" \o VersionToString(v)))>>)
            /\ OtherEntries(after, "dependencies") = OtherEntries(before, "dependencies")
            /\ OtherEntries(deps1, "ambient_api") = OtherEntries(deps0, "ambient_api")
            /\ \A i \in 1..Len(before.items) : after.items[i].key = before.items[i].key
            /\ \A i \in 1..Len(deps0.items) : deps1.items[i].key = deps0.items[i].key
            /\ deps0.form # "none" => deps1.form = deps0.form
            /\ SetCargoTomlAmbientApi(after, v) = after

\* A version string is replaced by a git/tag table in a manifest that has other
\* dependencies and other sections.
C14_Witness ==
    /\ cargoCall.op = "set_ambient_api" /\ cargoCall.res.ok
    /\ cargoCall.version.pre # ""
    /\ Get(Get(cargoCall.before.doc, "dependencies"), "ambient_api").form = "string"
    /\ Get(Get(cargoToml.doc, "dependencies"), "ambient_api").form = "inline"
    /\ Len(Get(cargoToml.doc, "dependencies").items) = 3
    /\ HasKey(cargoToml.doc, "dev-dependencies")
-----------------------------------------------------------------------------
(* Order and frame of the installation (SpecInstall) *)

\* The positions of install, in the order the pipeline passes them.
PipelineSteps ==
    { <<"idle", "download">>, <<"download", "decode">>, <<"decode", "mkdir">>,
      <<"mkdir", "extract">> }

EarlyFailures == {"No build for this OS", "download failed", "invalid archive"}

\* C15: install advances only not installed -> downloading -> extracting ->
\* installed, and a failure before extraction leaves local state untouched:
\* nothing under the runtimes directory changes before the archive has been
\* decoded, and a step that fails for want of a build for this OS, for a failed
\* download or for a payload that is no archive creates no directory and
\* writes no file.
C15_PipelineOrder ==
    [][ /\ ipc' # ipc => (<<ipc, ipc'>> \in PipelineSteps \/ ipc' = "idle")
        /\ (ipc # "idle" /\ ires'.ok) => (ipc = "extract" /\ ires'.how = "installed")
        /\ (fsDirs' # fsDirs \/ fsFiles' # fsFiles) => ipc \in {"mkdir", "extract"}
        /\ (ipc # "idle" /\ ipc' = "idle" /\ ~ires'.ok /\ ires'.err \in EarlyFailures) =>
              /\ ipc \in {"download", "decode"}
              /\ fsDirs' = fsDirs /\ fsFiles' = fsFiles
      ]_vars

\* A payload that is no archive stops install after another version was
\* installed: the failed version has no directory.
C15_Witness ==
    /\ ipc = "idle" /\ ~ires.ok /\ ires.err = "invalid archive"
    /\ DirPath(rv) \notin fsDirs
    /\ fsDirs # {} /\ fsFiles # {}

====
